---- MODULE Spec2Model ----
(***************************************************************************)
(* A model of MVTLayer (modules/geo-layers/src/mvt-layer/mvt-layer.js):    *)
(* the data-source lifecycle with its asynchronous TileJSON fetch, the     *)
(* feature identity resolver, the two feature aggregators, the frustum     *)
(* containment test and the lazily transformed picking result.             *)
(*                                                                         *)
(* JavaScript values are encoded as records so that values of different    *)
(* JavaScript types can be compared:                                       *)
(*   a zoom level     [finite, val]     (Number.isFinite(v), v)            *)
(*   an identity      [t, v]            t in "num", "undefined", "throw"   *)
(*   a coordinate     [isArray, num, items]                                *)
(***************************************************************************)
EXTENDS Integers, Sequences, FiniteSets

VARIABLES
    \* ---- data-source lifecycle (updateState / _updateTileData) ----
    props,          \* this.props: data, and minZoom / maxZoom as configured
    state,          \* this.state: data, tileJSON, minZoom, maxZoom
    inflight,       \* _updateTileData calls suspended at the await of line 62
    gen,            \* number of data-source changes so far
    last,           \* the latest data-source change and how its call ended
    lastUpdate,     \* whether the last updateState delegated to TileLayer
    \* ---- feature queries ----
    uniqueIdProperty,   \* this.props.uniqueIdProperty
    hits,               \* what deck.pickObjects returns (_pickObjects)
    renderedFeatures,   \* outcome of the last getRenderedFeatures call
    selectedTiles,      \* this.state.tileset.selectedTiles
    frustumPlanes,      \* this.context.viewport.getFrustumPlanes()
    viewportFeatures,   \* outcome of the last getViewportFeatures call
    \* ---- frustum containment on one coordinate structure ----
    fTile, fCoords, fResult,
    \* ---- picking ----
    resolution,     \* this.context.viewport.resolution (truthy: wgs84 regime)
    picked          \* the infos returned by getPickingInfo, with read counts

\* the variables outside each part of the model
notLifeVars == <<uniqueIdProperty, hits, renderedFeatures, selectedTiles, frustumPlanes,
                 viewportFeatures, fTile, fCoords, fResult, resolution, picked>>
notFeatureVars == <<props, state, inflight, gen, last, lastUpdate,
                    fTile, fCoords, fResult, resolution, picked>>
notFrustumVars == <<props, state, inflight, gen, last, lastUpdate, uniqueIdProperty,
                    hits, renderedFeatures, selectedTiles, viewportFeatures,
                    resolution, picked>>
notPickVars == <<props, state, inflight, gen, last, lastUpdate, uniqueIdProperty,
                 hits, renderedFeatures, selectedTiles, frustumPlanes, viewportFeatures,
                 fTile, fCoords, fResult>>
vars == <<props, state, inflight, gen, last, lastUpdate,
          uniqueIdProperty, hits, renderedFeatures, selectedTiles,
          frustumPlanes, viewportFeatures, fTile, fCoords, fResult,
          resolution, picked>>

(***************************************************************************)
(* Bounds of the model.                                                    *)
(***************************************************************************)
MaxChanges == 2
MaxZoom == 1

WORLD_SIZE == 512

(***************************************************************************)
(* Data-source lifecycle.                                                  *)
(***************************************************************************)
Fin(n) == [finite |-> TRUE, val |-> n]
NotFinite == [finite |-> FALSE, val |-> 0]

ZoomLevels == {Fin(n) : n \in 0..MaxZoom}
\* a TileJSON document's minzoom / maxzoom: a number, or absent
DocZooms == ZoomLevels \cup {NotFinite}
\* the caller's minZoom is a number; the caller's maxZoom is a number or null;
\* both are configuration, set at construction and kept over the data changes
CallerMinZooms == ZoomLevels
CallerMaxZooms == ZoomLevels \cup {NotFinite}

Urls == {"a.json", "b.json"}

NoDoc == [present |-> FALSE, from |-> "", minzoom |-> NotFinite, maxzoom |-> NotFinite]
Docs(from) ==
    {[present |-> TRUE, from |-> from, minzoom |-> mn, maxzoom |-> mx] :
        mn \in DocZooms, mx \in DocZooms}

\* props.data: a plain URL, a URL template, or a TileJSON object given inline
DataSources ==
    {[kind |-> "url", url |-> u, doc |-> NoDoc] : u \in Urls}
    \cup {[kind |-> "template", url |-> "", doc |-> NoDoc]}
    \cup {[kind |-> "tilejson", url |-> "", doc |-> d] : d \in Docs("inline")}

\* state.data: null, the URL template, or the tiles list of a TileJSON document
NullData == [kind |-> "null", from |-> ""]
TemplateData == [kind |-> "template", from |-> ""]
TilesOf(doc) == [kind |-> "tiles", from |-> doc.from]

Truthy(data) == data.kind # "null"

\* lines 74-83 with the comparison of line 74 reversed
ZoomBoundsWidening(tileJSON, minZoom, maxZoom) ==
    [minZoom |-> IF tileJSON.minzoom.finite /\ tileJSON.minzoom.val < minZoom.val
                 THEN tileJSON.minzoom ELSE minZoom,
     maxZoom |-> IF tileJSON.maxzoom.finite
                    /\ (~maxZoom.finite \/ tileJSON.maxzoom.val < maxZoom.val)
                 THEN tileJSON.maxzoom ELSE maxZoom]

\* lines 74-83: the zoom bounds of the props narrowed by the document
ZoomBounds(tileJSON, minZoom, maxZoom) ==
    [minZoom |-> IF tileJSON.minzoom.finite /\ tileJSON.minzoom.val > minZoom.val
                 THEN tileJSON.minzoom ELSE minZoom,
     maxZoom |-> IF tileJSON.maxzoom.finite
                    /\ (~maxZoom.finite \/ tileJSON.maxzoom.val < maxZoom.val)
                 THEN tileJSON.maxzoom ELSE maxZoom]

\* lines 71-86: the state written once the TileJSON (or none) is known
ResolvedState(data, tileJSON, minZoom, maxZoom) ==
    IF tileJSON.present
    THEN LET z == ZoomBounds(tileJSON, minZoom, maxZoom)
         IN  [data |-> TilesOf(tileJSON), tileJSON |-> tileJSON,
              minZoom |-> z.minZoom, maxZoom |-> z.maxZoom]
    ELSE [data |-> data, tileJSON |-> NoDoc, minZoom |-> minZoom, maxZoom |-> maxZoom]

\* line 90
renderLayers == IF ~Truthy(state.data) THEN "null" ELSE "layers"

\* lines 45-51: the part of updateState after the data change was handled
Delegation(st) == IF Truthy(st.data) THEN "delegated" ELSE "skipped"

InitialState ==
    [data |-> NullData, tileJSON |-> NoDoc, minZoom |-> NotFinite, maxZoom |-> NotFinite]

\* `last` records, for the latest data-source change, how its _updateTileData
\* call ended and the state its setState of line 86 wrote (derived)
NoCall == [id |-> 0, status |-> "none", derived |-> InitialState]

\* changeFlags.dataChanged: the new props.data differs from the old; a TileJSON
\* object given anew is another object, whatever it holds
DataChanged(d) == d.kind = "tilejson" \/ d # props.data

\* no update has been made yet: the first one has dataChanged set
NoData == [kind |-> "none", url |-> "", doc |-> NoDoc]

LifeInit ==
    /\ props \in [data : {NoData}, minZoom : CallerMinZooms, maxZoom : CallerMaxZooms]
    /\ state = InitialState
    /\ inflight = {}
    /\ gen = 0
    /\ last = NoCall
    /\ lastUpdate = "none"

\* updateState with changeFlags.dataChanged, the new data a plain URL:
\* _updateTileData runs to the await of line 62
UpdateStateUrl(d) ==
    /\ gen < MaxChanges
    /\ d.kind = "url"
    /\ DataChanged(d)
    /\ gen' = gen + 1
    /\ props' = [props EXCEPT !.data = d]
    /\ state' = [state EXCEPT !.data = NullData, !.tileJSON = NoDoc]
    /\ inflight' = inflight \cup {[id |-> gen + 1, url |-> d.url,
                                   minZoom |-> props.minZoom, maxZoom |-> props.maxZoom]}
    /\ last' = [id |-> gen + 1, status |-> "pending", derived |-> InitialState]
    /\ lastUpdate' = Delegation(state')
    /\ UNCHANGED notLifeVars

\* updateState with changeFlags.dataChanged, the new data a template or a
\* TileJSON object: _updateTileData runs to its end without suspending
UpdateStateSync(d) ==
    /\ gen < MaxChanges
    /\ d.kind # "url"
    /\ DataChanged(d)
    /\ gen' = gen + 1
    /\ props' = [props EXCEPT !.data = d]
    /\ state' = ResolvedState(TemplateData, d.doc, props.minZoom, props.maxZoom)
    /\ last' = [id |-> gen + 1, status |-> "applied", derived |-> state']
    /\ lastUpdate' = Delegation(state')
    /\ UNCHANGED inflight
    /\ UNCHANGED notLifeVars

\* updateState without a data change (a viewport or other prop change)
UpdateStateOther ==
    /\ gen > 0
    /\ lastUpdate' = Delegation(state)
    /\ UNCHANGED <<props, state, inflight, gen, last>>
    /\ UNCHANGED notLifeVars

\* fetchTileJSON resolves: _updateTileData resumes after line 62
FetchResolve(c, doc) ==
    /\ c \in inflight
    /\ doc.from = c.url
    /\ inflight' = inflight \ {c}
    /\ state' = ResolvedState(NullData, doc, c.minZoom, c.maxZoom)
    /\ last' = IF c.id = last.id
               THEN [last EXCEPT !.status = "applied", !.derived = state']
               ELSE last
    /\ UNCHANGED <<props, gen, lastUpdate>>
    /\ UNCHANGED notLifeVars

\* fetchTileJSON throws the wrapped error: _updateTileData ends at line 62
FetchReject(c) ==
    /\ c \in inflight
    /\ inflight' = inflight \ {c}
    /\ last' = IF c.id = last.id THEN [last EXCEPT !.status = "rejected"] ELSE last
    /\ UNCHANGED <<props, state, gen, lastUpdate>>
    /\ UNCHANGED notLifeVars

(***************************************************************************)
(* Tile placement (getModelMatrixScale, getCoordinateOrigin) and the       *)
(* frustum containment test.                                               *)
(***************************************************************************)
RECURSIVE Pow2(_)
Pow2(n) == IF n = 0 THEN 1 ELSE 2 * Pow2(n - 1)

\* lines 305-311; WORLD_SIZE / 2^z is exact for the zoom levels of the model
getModelMatrixScale(tile) ==
    LET worldScale == Pow2(tile.z)
        xScale == WORLD_SIZE \div worldScale
        yScale == -xScale
    IN  <<xScale, yScale, 1>>

\* lines 313-319; WORLD_SIZE * (1 - y / 2^z) = WORLD_SIZE - WORLD_SIZE * y / 2^z
getCoordinateOrigin(tile) ==
    LET worldScale == Pow2(tile.z)
        xOffset == (WORLD_SIZE * tile.x) \div worldScale
        yOffset == WORLD_SIZE - (WORLD_SIZE * tile.y) \div worldScale
    IN  <<xOffset, yOffset, 0>>

\* lines 226-228: new Matrix4().translate(origin).scale(scale), kept as the
\* pair it is built from; it maps p to origin + scale * p
TransformationMatrix(tile) ==
    [translate |-> getCoordinateOrigin(tile), scale |-> getModelMatrixScale(tile)]

\* a coordinate value: a number, or an array of coordinate values
Number(n) == [isArray |-> FALSE, num |-> n, items |-> <<>>]
Array(items) == [isArray |-> TRUE, num |-> 0, items |-> items]

\* typeof c[0] === 'number' and Array.isArray(c[0]); c[0] of an empty array is
\* undefined, which is neither
FirstIsNumber(c) == c.isArray /\ Len(c.items) > 0 /\ ~c.items[1].isArray
FirstIsArray(c) == c.isArray /\ Len(c.items) > 0 /\ c.items[1].isArray

\* the outcome of a call: a returned value, or an exception
Returned(v) == [threw |-> FALSE, value |-> v]
Threw == [threw |-> TRUE, value |-> FALSE]

\* matrix.transform(c) of lines 323 and 331 (math.gl): a vector of two or three
\* numbers is mapped, anything else is rejected with 'Illegal vector'
IsVector(c) ==
    /\ c.isArray
    /\ Len(c.items) \in {2, 3}
    /\ \A i \in 1..Len(c.items) : ~c.items[i].isArray
MatrixTransform(matrix, c) ==
    [i \in 1..Len(c.items) |-> matrix.translate[i] + matrix.scale[i] * c.items[i].num]

\* normal.dot(coords): the first three components
Dot(normal, v) == normal[1] * v[1] + normal[2] * v[2] + normal[3] * v[3]

\* lines 335-341 with a non-strict comparison
coordIsInPlanesNonStrict(planes, coords) ==
    \A plane \in planes : Dot(plane.normal, coords) <= plane.distance

\* lines 335-341
coordIsInPlanes(planes, coords) ==
    \A plane \in planes : Dot(plane.normal, coords) < plane.distance

\* coordIsInPlanes(frustumPlanes, matrix.transform(c).concat(0))
TransformedIsInPlanes(matrix, planes, c) ==
    IF IsVector(c)
    THEN Returned(coordIsInPlanes(planes, MatrixTransform(matrix, c) \o <<0>>))
    ELSE Threw

RECURSIVE checkIfCoordsAreInsideFrustum(_, _, _)
RECURSIVE SomeInsideFrustum(_, _, _, _)

\* lines 326-332: coords.some(...), from the i-th element on; it stops at the
\* first element that passes, and an exception ends it
SomeInsideFrustum(matrix, planes, items, i) ==
    IF i > Len(items)
    THEN Returned(FALSE)
    ELSE LET c == items[i]
             r == IF FirstIsArray(c)
                  THEN checkIfCoordsAreInsideFrustum(matrix, planes, c)
                  ELSE TransformedIsInPlanes(matrix, planes, c)
         IN  IF r.threw THEN Threw
             ELSE IF r.value THEN Returned(TRUE)
             ELSE SomeInsideFrustum(matrix, planes, items, i + 1)

\* lines 321-333
checkIfCoordsAreInsideFrustum(matrix, planes, coords) ==
    IF FirstIsNumber(coords)
    THEN TransformedIsInPlanes(matrix, planes, coords)
    ELSE IF coords.isArray
         THEN SomeInsideFrustum(matrix, planes, coords.items, 1)
         ELSE Threw

(***************************************************************************)
(* Inputs of the frustum containment test.                                 *)
(***************************************************************************)
MaxWeight == 4
MaxTileZ == 1

\* tile-local coordinates span the tile: 0 and 1 are its edges
LocalCoords == {0, 1}
Positions == {Array(<<Number(x), Number(y)>>) : x \in LocalCoords, y \in LocalCoords}

\* StructE(d, k): the structures of nesting depth d (0 a position, 1 a list of
\* positions, 2 a list of rings, 3 a list of polygons) made of exactly k
\* nodes (lists and positions); a list may be empty
RECURSIVE StructE(_, _)
RECURSIVE SeqsE(_, _)
StructE(d, k) ==
    IF d = 0 THEN (IF k = 1 THEN Positions ELSE {})
    ELSE IF k < 1 THEN {}
    ELSE {Array(s) : s \in SeqsE(d - 1, k - 1)}
SeqsE(d, m) ==
    IF m = 0 THEN {<<>>}
    ELSE UNION {{<<h>> \o t : h \in StructE(d, k), t \in SeqsE(d, m - k)} : k \in 1..m}

Structures == UNION {StructE(d, k) : d \in 0..3, k \in 1..MaxWeight}

\* the corner tiles of each zoom level
CornerTiles ==
    UNION {{[x |-> x, y |-> y, z |-> z] : x \in {0, Pow2(z) - 1}, y \in {0, Pow2(z) - 1}} :
             z \in 0..MaxTileZ}

Plane(normal, distance) == [normal |-> normal, distance |-> distance]
PlaneSets ==
    { {},
      {Plane(<<1, 0, 0>>, 256)},
      {Plane(<<0, -1, 0>>, -300)},
      {Plane(<<1, 0, 0>>, 500), Plane(<<0, 1, 0>>, 512)} }

\* the outcome of the last call of an operation, none before it is called
NotCalled(v) == [called |-> FALSE, threw |-> FALSE, value |-> v]
Outcome(r) == [called |-> TRUE, threw |-> r.threw, value |-> r.value]

FrustumIdle == fTile = [x |-> 0, y |-> 0, z |-> 0] /\ fCoords = Array(<<>>) /\ fResult = NotCalled(FALSE)

FrustumInit ==
    /\ fTile \in CornerTiles
    /\ fCoords \in Structures
    /\ frustumPlanes \in PlaneSets
    /\ fResult = NotCalled(FALSE)

\* one containment test, as getViewportFeatures makes it for a feature of a tile
CheckCoords ==
    /\ ~fResult.called
    /\ fResult' = Outcome(checkIfCoordsAreInsideFrustum(
                      TransformationMatrix(fTile), frustumPlanes, fCoords))
    /\ UNCHANGED <<fTile, fCoords, frustumPlanes>>
    /\ UNCHANGED notFrustumVars

(***************************************************************************)
(* Feature identity and the two aggregators.                               *)
(***************************************************************************)
\* an identity: a number, undefined, or the exception of a failed lookup
IdNum(n) == [t |-> "num", v |-> n]
Undefined == [t |-> "undefined", v |-> 0]
TypeError == [t |-> "throw", v |-> 0]
Sentinel == IdNum(-1)

\* a feature: an optional top-level id, an optional property map (of which
\* the model keeps the key "name", undefined when the map lacks it), and the
\* coordinates of its geometry
Feature(hasId, id, hasProperties, name, coordinates) ==
    [hasId |-> hasId, id |-> id, hasProperties |-> hasProperties,
     name |-> name, coordinates |-> coordinates]

\* lines 271-281; feature.properties[...] of a feature without a property map
\* is a TypeError
getFeatureUniqueId(feature, uniqueId) ==
    IF uniqueId # ""
    THEN IF feature.hasProperties THEN feature.name ELSE TypeError
    ELSE IF feature.hasId THEN feature.id
    ELSE Sentinel

\* the state of a collecting loop: the identities seen and the objects kept;
\* objects are kept by reference, a reference being the place of the object
\* in the input
NoFeatures == [cache |-> {}, kept |-> <<>>]

\* lines 199-206 with the sentinel deduplicated like any identity
RenderedStepDedupAll(acc, ref, featureId) ==
    IF featureId \notin acc.cache
    THEN [cache |-> acc.cache \cup {featureId}, kept |-> Append(acc.kept, ref)]
    ELSE acc

\* lines 199-206: one iteration of the loop of getRenderedFeatures
RenderedStep(acc, ref, featureId) ==
    IF featureId = Sentinel
    THEN [acc EXCEPT !.kept = Append(acc.kept, ref)]
    ELSE IF featureId \notin acc.cache
         THEN [cache |-> acc.cache \cup {featureId}, kept |-> Append(acc.kept, ref)]
         ELSE acc

RECURSIVE RenderedLoop(_, _, _, _)
\* lines 196-207
RenderedLoop(features, uniqueId, i, acc) ==
    IF i > Len(features)
    THEN Returned(acc.kept)
    ELSE LET featureId == getFeatureUniqueId(features[i], uniqueId)
         IN  IF featureId = TypeError
             THEN [threw |-> TRUE, value |-> <<>>]
             ELSE RenderedLoop(features, uniqueId, i + 1,
                               RenderedStep(acc, i, featureId))

\* lines 191-210; features is what _pickObjects returned
getRenderedFeatures(features, uniqueId) ==
    RenderedLoop(features, uniqueId, 1, NoFeatures)

\* lines 231-245 with the cache never consulted
ViewportStepNoDedup(acc, ref, featureId, inside) ==
    IF inside
    THEN [cache |-> acc.cache \cup {featureId}, kept |-> Append(acc.kept, ref)]
    ELSE acc

\* lines 231-245 with the identity recorded before the containment test
ViewportStepEarlyCache(acc, ref, featureId, inside) ==
    IF featureId \notin acc.cache
    THEN [cache |-> acc.cache \cup {featureId},
          kept |-> IF inside THEN Append(acc.kept, ref) ELSE acc.kept]
    ELSE acc

\* lines 231-245: the filter of getViewportFeatures on one feature; inside is
\* the outcome of the containment test, which && consults only when the
\* identity is new
ViewportStep(acc, ref, featureId, inside) ==
    IF featureId \notin acc.cache /\ inside
    THEN [cache |-> acc.cache \cup {featureId}, kept |-> Append(acc.kept, ref)]
    ELSE acc

RECURSIVE FilterLoop(_, _, _, _, _, _)
\* lines 231-245: data.filter(...) of the t-th tile, from its j-th feature on;
\* the containment test can fail the call only when && reaches it
FilterLoop(tiles, uniqueId, planes, t, j, acc) ==
    IF j > Len(tiles[t].data.items)
    THEN [threw |-> FALSE, value |-> acc]
    ELSE LET f == tiles[t].data.items[j]
             featureId == getFeatureUniqueId(f, uniqueId)
             test == checkIfCoordsAreInsideFrustum(
                         TransformationMatrix(tiles[t]), planes, f.coordinates)
         IN  IF featureId = TypeError \/ (featureId \notin acc.cache /\ test.threw)
             THEN [threw |-> TRUE, value |-> acc]
             ELSE FilterLoop(tiles, uniqueId, planes, t, j + 1,
                             ViewportStep(acc, <<t, j>>, featureId, test.value))

RECURSIVE TilesLoop(_, _, _, _, _)
\* lines 219-247: tileset.selectedTiles.forEach(...), from the t-th tile on
TilesLoop(tiles, uniqueId, planes, t, acc) ==
    IF t > Len(tiles)
    THEN Returned(acc.kept)
    ELSE IF ~tiles[t].data.isArray
         THEN TilesLoop(tiles, uniqueId, planes, t + 1, acc)
         ELSE LET r == FilterLoop(tiles, uniqueId, planes, t, 1, acc)
              IN  IF r.threw
                  THEN [threw |-> TRUE, value |-> <<>>]
                  ELSE TilesLoop(tiles, uniqueId, planes, t + 1, r.value)

\* lines 212-250
getViewportFeatures(tiles, uniqueId, planes) ==
    TilesLoop(tiles, uniqueId, planes, 1, NoFeatures)

(***************************************************************************)
(* Inputs of the aggregators.                                              *)
(***************************************************************************)
MaxHits == 3
MaxTiles == 2
MaxFeatures == 3

Point(x, y) == Array(<<Number(x), Number(y)>>)

\* the features the inputs are made of: with and without a top-level id,
\* with a property map holding the key, lacking it, and with no map at all
FeaturePool ==
    { Feature(TRUE, IdNum(1), TRUE, IdNum(1), Point(0, 0)),
      Feature(TRUE, IdNum(1), TRUE, IdNum(2), Point(1, 0)),
      Feature(TRUE, IdNum(2), TRUE, IdNum(1), Point(0, 0)),
      Feature(FALSE, Undefined, TRUE, Undefined, Point(0, 0)),
      Feature(FALSE, Undefined, TRUE, Undefined, Point(1, 0)),
      Feature(FALSE, Undefined, FALSE, Undefined, Point(0, 0)) }

UniqueIdProperties == {"", "name"}

\* tile.data: the decoded feature array, or not an array while pending
Pending == [isArray |-> FALSE, items |-> <<>>]
Decoded(items) == [isArray |-> TRUE, items |-> items]

\* the two tiles of zoom level 1 in row 0; selection alternates between them
TileAt(t, data) == [x |-> t % 2, y |-> 0, z |-> 1, data |-> data]

\* the shape of a selection: per tile the number of its features, -1 for a
\* tile whose data is pending; at most MaxFeatures features together
RECURSIVE Total(_, _)
Total(shape, t) ==
    IF t = 0 THEN 0
    ELSE Total(shape, t - 1) + (IF shape[t] < 0 THEN 0 ELSE shape[t])
Shapes ==
    UNION {{shape \in [1..n -> -1..MaxFeatures] : Total(shape, n) <= MaxFeatures} :
             n \in 0..MaxTiles}

\* the selection of the given shape whose features, tile after tile, are flat
Selection(shape, flat) ==
    [t \in 1..Len(shape) |->
        TileAt(t, IF shape[t] < 0 THEN Pending
                  ELSE Decoded([j \in 1..shape[t] |-> flat[Total(shape, t - 1) + j]]))]

\* the frustum of the aggregator's viewport: x < 500 in world units
ViewFrustum == {Plane(<<1, 0, 0>>, 500)}

FeaturesIdle ==
    /\ uniqueIdProperty = ""
    /\ hits = <<>> /\ renderedFeatures = NotCalled(<<>>)
    /\ selectedTiles = <<>> /\ viewportFeatures = NotCalled(<<>>)

\* a query is made either of hit-test results or of a tile selection
FeaturesInit ==
    /\ uniqueIdProperty \in UniqueIdProperties
    /\ frustumPlanes = ViewFrustum
    /\ \/ /\ \E n \in 0..MaxHits : hits \in [1..n -> FeaturePool]
          /\ selectedTiles = <<>>
       \/ /\ hits = <<>>
          /\ \E shape \in Shapes :
                \E flat \in [1..Total(shape, Len(shape)) -> FeaturePool] :
                    selectedTiles = Selection(shape, flat)
    /\ renderedFeatures = NotCalled(<<>>)
    /\ viewportFeatures = NotCalled(<<>>)

\* getRenderedFeatures(), called by the consumer of onViewportChange
GetRenderedFeatures ==
    /\ ~renderedFeatures.called
    /\ renderedFeatures' = Outcome(getRenderedFeatures(hits, uniqueIdProperty))
    /\ UNCHANGED <<uniqueIdProperty, hits, selectedTiles, frustumPlanes, viewportFeatures>>
    /\ UNCHANGED notFeatureVars

\* getViewportFeatures(), called by the consumer of onViewportChange
GetViewportFeatures ==
    /\ ~viewportFeatures.called
    /\ viewportFeatures' =
           Outcome(getViewportFeatures(selectedTiles, uniqueIdProperty, frustumPlanes))
    /\ UNCHANGED <<uniqueIdProperty, hits, selectedTiles, frustumPlanes, renderedFeatures>>
    /\ UNCHANGED notFeatureVars

(***************************************************************************)
(* Picking: getPickingInfo and the deferred coordinates of its result.     *)
(***************************************************************************)
MaxPicks == 2
MaxReads == 2

\* lines 287-303: a copy of the object whose geometry.coordinates is a getter;
\* reads and transforms count the reads of that property and the calls of
\* transform made for this object
transformTileCoordsToWGS84(object) ==
    [object |-> object, deferred |-> TRUE, reads |-> 0, transforms |-> 0]

\* lines 148-158; object is info.object of TileLayer's picking info
getPickingInfo(isWGS84, object) ==
    IF ~isWGS84 /\ object # "null"
    THEN transformTileCoordsToWGS84(object)
    ELSE [object |-> object, deferred |-> FALSE, reads |-> 0, transforms |-> 0]

\* lines 296-300 with the transformed coordinates kept after the first read
ReadCoordinatesCached(info) ==
    [info EXCEPT !.reads = @ + 1,
                 !.transforms = IF info.deferred /\ info.reads = 0 THEN 1 ELSE @]

\* a read of info.object.geometry.coordinates: the getter of lines 296-300
\* calls transform, a plain property does not
ReadCoordinates(info) ==
    [info EXCEPT !.reads = @ + 1,
                 !.transforms = IF info.deferred THEN @ + 1 ELSE @]

PickedObjects == {"null", "feature"}

PickIdle == resolution = FALSE /\ picked = <<>>

PickInit == resolution \in BOOLEAN /\ picked = <<>>

\* the viewport changes between the planar and the geodetic regime
SetViewport ==
    /\ resolution' = ~resolution
    /\ UNCHANGED picked
    /\ UNCHANGED notPickVars

\* a point query: deck calls getPickingInfo
Pick(object) ==
    /\ Len(picked) < MaxPicks
    /\ picked' = Append(picked, getPickingInfo(resolution, object))
    /\ UNCHANGED resolution
    /\ UNCHANGED notPickVars

\* the application reads the coordinates of the i-th picked feature
Read(i) ==
    /\ picked[i].object # "null"
    /\ picked[i].reads < MaxReads
    /\ picked' = [picked EXCEPT ![i] = ReadCoordinates(picked[i])]
    /\ UNCHANGED resolution
    /\ UNCHANGED notPickVars

(***************************************************************************)
(* Specifications.                                                         *)
(***************************************************************************)
LifeIdle ==
    /\ props = [data |-> NoData, minZoom |-> Fin(0), maxZoom |-> NotFinite]
    /\ state = InitialState
    /\ inflight = {} /\ gen = 0 /\ last = NoCall /\ lastUpdate = "none"

InitLifecycle == LifeInit /\ FeaturesIdle /\ frustumPlanes = {} /\ FrustumIdle /\ PickIdle

LifeNext ==
    \/ \E d \in DataSources : UpdateStateUrl(d)
    \/ \E d \in DataSources : UpdateStateSync(d)
    \/ UpdateStateOther
    \/ \E c \in inflight : \E doc \in Docs(c.url) : FetchResolve(c, doc)
    \/ \E c \in inflight : FetchReject(c)

SpecLifecycle == InitLifecycle /\ [][LifeNext]_vars

InitFeatures == FeaturesInit /\ LifeIdle /\ FrustumIdle /\ PickIdle

FeaturesNext == GetRenderedFeatures \/ GetViewportFeatures

SpecFeatures == InitFeatures /\ [][FeaturesNext]_vars

InitFrustum == FrustumInit /\ LifeIdle /\ FeaturesIdle /\ PickIdle

FrustumNext == CheckCoords

SpecFrustum == InitFrustum /\ [][FrustumNext]_vars

InitPicking == PickInit /\ LifeIdle /\ FeaturesIdle /\ frustumPlanes = {} /\ FrustumIdle

PickNext ==
    \/ SetViewport
    \/ \E object \in PickedObjects : Pick(object)
    \/ \E i \in 1..Len(picked) : Read(i)

SpecPicking == InitPicking /\ [][PickNext]_vars

(***************************************************************************)
(* The claims.                                                             *)
(***************************************************************************)
\* C1: last write wins. Once no fetch is in flight and the latest data-source
\* change has been applied, the layer state (data, tileJSON, minZoom, maxZoom)
\* is the one that change derived; a stale fetch never overwrote it.
LastWriteWins ==
    (inflight = {} /\ last.status = "applied") => state = last.derived

\* C5: zoom bounds are only tightened. Whenever the state holds a TileJSON
\* document, state.minZoom is at least the caller's minZoom and, the caller's
\* maxZoom being a number, state.maxZoom is a number no greater than it.
ZoomOnlyTightened ==
    state.tileJSON.present =>
        /\ state.minZoom.finite
        /\ state.minZoom.val >= props.minZoom.val
        /\ props.maxZoom.finite =>
               (state.maxZoom.finite /\ state.maxZoom.val <= props.maxZoom.val)

\* a document wider than the caller's bounds on both sides has been applied
WitnessZoomOnlyTightened ==
    /\ state.tileJSON.present
    /\ state.tileJSON.minzoom.finite
    /\ state.tileJSON.minzoom.val < props.minZoom.val
    /\ props.maxZoom.finite
    /\ state.tileJSON.maxzoom.finite
    /\ state.tileJSON.maxzoom.val > props.maxZoom.val

\* C6: after the TileJSON fetch of the latest data-source change has failed,
\* the layer stays without data: state.data is null, renderLayers returns null
\* and updateState has not delegated to the tiling layer.
NoDataAfterFailedFetch ==
    last.status = "rejected" =>
        /\ ~Truthy(state.data)
        /\ renderLayers = "null"
        /\ lastUpdate # "delegated"

\* ---- helpers of the claims about features ----
Range(seq) == {seq[i] : i \in DOMAIN seq}

\* the identity of the i-th hit-test result
HitIdentity(i) == getFeatureUniqueId(hits[i], uniqueIdProperty)

\* the references <<t, j>> to the features of the selected tiles with array data
AllRefs ==
    {<<t, j>> : t \in {u \in DOMAIN selectedTiles : selectedTiles[u].data.isArray},
               j \in 1..MaxFeatures} \cap
    {r \in (DOMAIN selectedTiles) \X (1..MaxFeatures) :
        r[2] <= Len(selectedTiles[r[1]].data.items)}
FeatureAt(r) == selectedTiles[r[1]].data.items[r[2]]
RefIdentity(r) == getFeatureUniqueId(FeatureAt(r), uniqueIdProperty)
\* tile selection order, then feature order within the tile
Before(r, q) == r[1] < q[1] \/ (r[1] = q[1] /\ r[2] < q[2])

\* the world position of a tile-local point: x grows with the column, y
\* falls with the row, the tile spanning WORLD_SIZE / 2^z
PlacedPoint(tile, p) ==
    << (WORLD_SIZE * (tile.x + p.items[1].num)) \div Pow2(tile.z),
       WORLD_SIZE - (WORLD_SIZE * (tile.y + p.items[2].num)) \div Pow2(tile.z),
       0 >>
LeafInside(tile, planes, p) ==
    \A plane \in planes : Dot(plane.normal, PlacedPoint(tile, p)) < plane.distance

\* the leaf positions of a structure: its non-empty arrays of numbers
RECURSIVE Leaves(_)
Leaves(c) ==
    IF ~c.isArray THEN {}
    ELSE IF Len(c.items) > 0 /\ \A i \in DOMAIN c.items : ~c.items[i].isArray THEN {c}
    ELSE UNION {Leaves(c.items[i]) : i \in DOMAIN c.items}
SomeLeafInside(tile, planes, c) == \E p \in Leaves(c) : LeafInside(tile, planes, p)

\* no list of the structure is empty
RECURSIVE NoEmptyList(_)
NoEmptyList(c) ==
    c.isArray => (Len(c.items) > 0 /\ \A i \in DOMAIN c.items : NoEmptyList(c.items[i]))
\* every list nested inside the structure is non-empty
NestedListsNonEmpty(c) == \A i \in DOMAIN c.items : NoEmptyList(c.items[i])

\* a feature of a selected tile passes the containment test of its tile
Passes(r) == SomeLeafInside(selectedTiles[r[1]], frustumPlanes, FeatureAt(r).coordinates)

\* C2: deduplication invariant. No two elements of the array returned by
\* getRenderedFeatures or by getViewportFeatures have the same identity,
\* unless that identity is the sentinel -1.
NoSharedDefinedIdentity ==
    /\ (renderedFeatures.called /\ ~renderedFeatures.threw) =>
          \A a, b \in DOMAIN renderedFeatures.value :
              (a # b /\ HitIdentity(renderedFeatures.value[a]) # Sentinel) =>
                  HitIdentity(renderedFeatures.value[a]) # HitIdentity(renderedFeatures.value[b])
    /\ (viewportFeatures.called /\ ~viewportFeatures.threw) =>
          \A a, b \in DOMAIN viewportFeatures.value :
              (a # b /\ RefIdentity(viewportFeatures.value[a]) # Sentinel) =>
                  RefIdentity(viewportFeatures.value[a]) # RefIdentity(viewportFeatures.value[b])

\* two tiles hold a feature of the same defined identity, both in the frustum,
\* and getViewportFeatures has returned
WitnessNoSharedDefinedIdentity ==
    /\ viewportFeatures.called /\ ~viewportFeatures.threw
    /\ \E r, q \in AllRefs :
          /\ r[1] # q[1]
          /\ RefIdentity(r) = RefIdentity(q) /\ RefIdentity(r) # Sentinel
          /\ Passes(r) /\ Passes(q)
          /\ r \in Range(viewportFeatures.value)

\* C3: in getViewportFeatures every feature of sentinel identity that belongs
\* to a selected tile with array data and passes the containment test is in
\* the result, however many sentinel features were kept before it.
SentinelNeverDeduplicated ==
    (viewportFeatures.called /\ ~viewportFeatures.threw) =>
        \A r \in AllRefs :
            (RefIdentity(r) = Sentinel /\ Passes(r)) => r \in Range(viewportFeatures.value)

\* C4: getRenderedFeatures returns, in input order, exactly the hit-test
\* results whose identity is the sentinel and the first occurrence of every
\* other identity.
RenderedIsFirstOccurrences ==
    (renderedFeatures.called /\ ~renderedFeatures.threw) =>
        /\ \A a, b \in DOMAIN renderedFeatures.value :
               a < b => renderedFeatures.value[a] < renderedFeatures.value[b]
        /\ Range(renderedFeatures.value) =
               {i \in DOMAIN hits :
                   \/ HitIdentity(i) = Sentinel
                   \/ \A j \in 1..(i - 1) : HitIdentity(j) # HitIdentity(i)}

\* the scenario of identities 1, 1, -1: the first and the third are returned
WitnessRenderedIsFirstOccurrences ==
    /\ renderedFeatures.called /\ ~renderedFeatures.threw
    /\ Len(hits) = 3
    /\ HitIdentity(1) = IdNum(1) /\ HitIdentity(2) = IdNum(1) /\ HitIdentity(3) = Sentinel
    /\ renderedFeatures.value = <<1, 3>>

\* C7: the identity resolver never throws, whatever the feature (one without
\* a property map included) and whatever uniqueIdProperty.
ResolverNeverThrows ==
    /\ renderedFeatures.called =>
          (~renderedFeatures.threw /\ \A i \in DOMAIN hits : HitIdentity(i) # TypeError)
    /\ viewportFeatures.called =>
          (~viewportFeatures.threw /\ \A r \in AllRefs : RefIdentity(r) # TypeError)

\* C8 as amended: for a structure whose nested lists are all non-empty, the
\* containment test returns, and returns true exactly when some leaf position
\* placed by the tile's transform is strictly inside every plane; the empty
\* list is not inside.
ContainmentIsExistenceOverLeaves ==
    (fResult.called /\ NestedListsNonEmpty(fCoords)) =>
        /\ ~fResult.threw
        /\ fResult.value = SomeLeafInside(fTile, frustumPlanes, fCoords)

\* a list of rings whose first leaf is outside and a later one inside
WitnessContainmentIsExistenceOverLeaves ==
    /\ fResult.called /\ fResult.value
    /\ NestedListsNonEmpty(fCoords)
    /\ FirstIsArray(fCoords) /\ FirstIsArray(fCoords.items[1])
    /\ \E p \in Leaves(fCoords) : ~LeafInside(fTile, frustumPlanes, p)

\* C8 as claimed: for every nested structure the containment test returns
\* true exactly when some leaf position is strictly inside every plane, and a
\* structure without leaf positions is not inside.
ContainmentOnEveryStructure ==
    fResult.called =>
        /\ ~fResult.threw
        /\ fResult.value = SomeLeafInside(fTile, frustumPlanes, fCoords)

\* C9: getViewportFeatures returns features in tile selection order, then
\* feature order; tiles without array data are skipped and never fail the
\* call; of the features sharing a defined identity, the first that passes
\* the containment test is returned and every later one is suppressed.
ViewportOrderFirstWins ==
    /\ (viewportFeatures.called /\ viewportFeatures.threw) =>
          \E r \in AllRefs : RefIdentity(r) = TypeError
    /\ (viewportFeatures.called /\ ~viewportFeatures.threw) =>
          /\ \A a, b \in DOMAIN viewportFeatures.value :
                 a < b => Before(viewportFeatures.value[a], viewportFeatures.value[b])
          /\ \A a \in DOMAIN viewportFeatures.value :
                 viewportFeatures.value[a] \in AllRefs /\ Passes(viewportFeatures.value[a])
          /\ \A r \in AllRefs :
                 RefIdentity(r) # Sentinel =>
                    (r \in Range(viewportFeatures.value) <=>
                        /\ Passes(r)
                        /\ \A q \in AllRefs :
                               (Before(q, r) /\ RefIdentity(q) = RefIdentity(r)) => ~Passes(q))

\* of two features of one defined identity the first failed the containment
\* test of its tile and the second, which passed, was returned
WitnessViewportOrderFirstWins ==
    /\ viewportFeatures.called /\ ~viewportFeatures.threw
    /\ \E r, q \in AllRefs :
          /\ Before(r, q)
          /\ RefIdentity(r) = RefIdentity(q) /\ RefIdentity(r) # Sentinel
          /\ ~Passes(r) /\ Passes(q)
          /\ q \in Range(viewportFeatures.value)

====
